---- MODULE Spec2Model ----
(***************************************************************************)
(* Model of naptha_sdk/scrape.py: the dependency extractor that packages a *)
(* function with the local code and constants it references.               *)
(*                                                                         *)
(* Text (names, source text, paths) is a sequence of tokens; a token is a  *)
(* run of characters that the inputs never split ("f", ".yaml", "/").      *)
(* Python's substring test, startswith and endswith are modelled on these  *)
(* sequences.                                                              *)
(***************************************************************************)
EXTENDS Integers, Sequences, FiniteSets, TLC

\* ------------------------------------------------------------------ text

\* Python: name in text (substring test).
Contains(text, name) ==
  \E i \in 0..(Len(text) - Len(name)) : SubSeq(text, i + 1, i + Len(name)) = name

\* Python: text.startswith(prefix).
StartsWith(text, prefix) ==
  /\ Len(prefix) <= Len(text)
  /\ SubSeq(text, 1, Len(prefix)) = prefix

\* Python: text.endswith(suffix).
EndsWith(text, suffix) ==
  /\ Len(suffix) <= Len(text)
  /\ SubSeq(text, Len(text) - Len(suffix) + 1, Len(text)) = suffix

\* ------------------------------------------------------- is_local_module

\* os.getcwd(): the project directory /p.
Cwd == <<"/", "p">>

\* os.path.join(a, b) for a relative b.
PathJoin(a, b) == IF EndsWith(a, <<"/">>) THEN a \o b ELSE a \o <<"/">> \o b

\* os.path.abspath(p) for a path without "." or ".." components.
AbsPath(p) == IF StartsWith(p, <<"/">>) THEN p ELSE PathJoin(Cwd, p)

\* A result: a returned value, or the exception that left the function.
Ret(v) == [exc |-> "none", value |-> v]
Raise(e) == [exc |-> e, value |-> FALSE]

\* Line 22: module_path.startswith(venv_dir).
InVenv(module_path, venv_dir) == StartsWith(module_path, venv_dir)

\* is_local_module(module). module.file is "absent" (no __file__ attribute),
\* "none" (__file__ is None, where os.path.abspath raises TypeError) or "path".
is_local_module(module) ==
  IF module.file = "absent" THEN Ret(FALSE)
  ELSE IF module.file = "none" THEN Raise("TypeError")
  ELSE LET module_path == AbsPath(module.path)
           current_dir == AbsPath(Cwd)
           venv_dir == PathJoin(current_dir, <<".venv">>)
       IN IF StartsWith(module_path, current_dir)
          THEN IF InVenv(module_path, venv_dir) THEN Ret(FALSE) ELSE Ret(TRUE)
          ELSE Ret(FALSE)

\* ---------------------------------------------------------- Python values

\* A Python value: its type and the text str() gives for it.
PyStr(text) == [t |-> "str", s |-> text]
PyInt(tok) == [t |-> "int", s |-> <<tok>>]
PyFloat(tok) == [t |-> "float", s |-> <<tok>>]
PyBool(tok) == [t |-> "bool", s |-> <<tok>>]
PyNone == [t |-> "NoneType", s |-> <<"None">>]

\* f"{value}": the str() of the value; a str is copied without quotes.
Format(value) == value.s

\* isinstance(value, str).
IsStr(value) == value.t = "str"

\* ------------------------------------------------------------ scrape_init

\* Expressions of the entry file (ast nodes).
Constant(v) == [node |-> "Constant", value |-> v]
Name(id) == [node |-> "Name", id |-> id]
Attribute(value, attr) == [node |-> "Attribute", value |-> value, attr |-> attr]
Call(func, keywords) == [node |-> "Call", func |-> func, keywords |-> keywords]
Other(src) == [node |-> "Other", src |-> src]
Keyword(arg, value) == [arg |-> arg, value |-> value]

\* An ast.Assign node at nesting depth `depth` (1: a top-level statement).
Assign(depth, targets, value) == [depth |-> depth, targets |-> targets, value |-> value]

\* scrape_init.extract_value(value), lines 29-42.
RECURSIVE extract_value(_)
extract_value(value) ==
  CASE value.node = "Constant" -> value.value
    [] value.node = "Name" -> PyStr(value.id)
    [] value.node = "Attribute" ->
         PyStr(Format(extract_value(value.value)) \o <<".">> \o value.attr)
    [] value.node = "Call" ->
         IF value.func.node = "Attribute"
         THEN PyStr(Format(extract_value(value.func.value)) \o <<".">> \o value.func.attr \o <<"()">>)
         ELSE IF value.func.node = "Name"
         THEN PyStr(value.func.id \o <<"()">>)
         ELSE PyNone
    [] OTHER -> PyStr(value.src)

\* A variable record (the dicts built at lines 55-61 and 86, 97). obj is a
\* history field: the object a globals scan made the record for ("" for a
\* record of the entry-file scan).
CallData(target, cls_name, keywords, values) ==
  [type |-> "call", target |-> target, cls_name |-> cls_name, value |-> PyNone,
   has_keywords |-> keywords # <<>>, keywords |-> keywords, values |-> values,
   obj |-> ""]
ConstantData(target, value) ==
  [type |-> "constant", target |-> target, cls_name |-> <<>>, value |-> value,
   has_keywords |-> FALSE, keywords |-> <<>>, values |-> <<>>, obj |-> ""]
UnionData(target, value, obj) ==
  [type |-> "union", target |-> target, cls_name |-> <<>>, value |-> value,
   has_keywords |-> FALSE, keywords |-> <<>>, values |-> <<>>, obj |-> obj]
\* Line 97: a constant found in the scanned globals.
GlobalConstantData(target, value, obj) ==
  [type |-> "constant", target |-> target, cls_name |-> <<>>, value |-> value,
   has_keywords |-> FALSE, keywords |-> <<>>, values |-> <<>>, obj |-> obj]

\* unique_variables[key] = data on a dict kept as the sequence of its values:
\* an existing key keeps its position and takes the new value.
DictSet(d, data) ==
  IF \E i \in 1..Len(d) : d[i].target = data.target
  THEN [i \in 1..Len(d) |-> IF d[i].target = data.target THEN data ELSE d[i]]
  ELSE Append(d, data)

\* Lines 52-62 for one target of one ast.Assign node.
RecordTarget(d, node, target) ==
  IF ~target.isName THEN d
  ELSE IF node.value.node = "Call" /\ node.value.func.node = "Name"
  THEN DictSet(d, CallData(target.id, node.value.func.id,
                  [k \in 1..Len(node.value.keywords) |-> node.value.keywords[k].arg],
                  [k \in 1..Len(node.value.keywords) |-> extract_value(node.value.keywords[k].value)]))
  ELSE IF node.value.node = "Constant"
  THEN DictSet(d, ConstantData(target.id, node.value.value))
  ELSE d

RECURSIVE RecordTargets(_, _, _)
RecordTargets(d, node, j) ==
  IF j > Len(node.targets) THEN d
  ELSE RecordTargets(RecordTarget(d, node, node.targets[j]), node, j + 1)

\* The deepest nesting of an assignment in the modelled entry files.
MaxDepth == 2

\* ast.walk(tree) restricted to the Assign nodes: breadth first, so the nodes
\* come by depth and, within one depth, in document order.
RECURSIVE WalkFrom(_, _)
WalkFrom(file, depth) ==
  IF depth > MaxDepth THEN <<>>
  ELSE SelectSeq(file, LAMBDA n : n.depth = depth) \o WalkFrom(file, depth + 1)

ast_walk(file) == WalkFrom(file, 1)

RECURSIVE ScanNodes(_, _, _)
ScanNodes(d, nodes, i) ==
  IF i > Len(nodes) THEN d
  ELSE ScanNodes(RecordTargets(d, nodes[i], 1), nodes, i + 1)

\* scrape_init(file_path) on the Assign nodes of the parsed file, lines 44-67.
scrape_init(file) == ScanNodes(<<>>, ast_walk(file), 1)

\* ------------------------------------------------------ lines of a text

\* text.splitlines(): the lines without their "\n"; no empty last line.
RECURSIVE SplitFrom(_, _, _)
SplitFrom(text, i, line) ==
  IF i > Len(text) THEN (IF line = <<>> THEN <<>> ELSE <<line>>)
  ELSE IF text[i] = "\n" THEN <<line>> \o SplitFrom(text, i + 1, <<>>)
  ELSE SplitFrom(text, i + 1, Append(line, text[i]))

splitlines(text) == SplitFrom(text, 1, <<>>)

\* line.strip() as far as startswith looks: the leading blanks removed.
RECURSIVE lstrip(_)
lstrip(line) ==
  IF line # <<>> /\ line[1] = " " THEN lstrip(Tail(line)) ELSE line

\* sep.join(parts).
RECURSIVE join(_, _)
join(sep, parts) ==
  IF parts = <<>> THEN <<>>
  ELSE IF Len(parts) = 1 THEN parts[1]
  ELSE parts[1] \o sep \o join(sep, Tail(parts))

\* Line 150: the source without the lines that start with "@".
strip_decorators(source) ==
  join(<<"\n">>, SelectSeq(splitlines(source), LAMBDA line : ~StartsWith(lstrip(line), <<"@">>)))

\* ------------------------------------------------------------- objects

\* A runtime object. kind: "union" (type name contains "Union"), "const" (int,
\* str, float, bool), "module", "class", "function", "typevar", "instance",
\* "generic" (a typing alias without __name__), "list" (unhashable, without
\* __module__), "tuple" (hashable, without __module__). eq: objects with the
\* same eq compare equal and hash alike.
Obj(kind, module, name, source, value, args, eq) ==
  [kind |-> kind, module |-> module, name |-> name, source |-> source,
   value |-> value, args |-> args, eq |-> eq, file |-> "absent", path |-> <<>>]

\* A module object: its __name__ and its __file__.
ModuleObj(name, file, path) ==
  [kind |-> "module", module |-> "", name |-> name, source |-> <<>>,
   value |-> PyNone, args |-> <<>>, eq |-> name, file |-> file, path |-> path]

\* hash(obj) works: lists and dicts are unhashable.
Hashable(o) == o.kind # "list"
\* hasattr(obj, '__module__').
HasModuleAttr(o) == o.kind \notin {"list", "tuple", "const"}
\* hasattr(arg, '__name__').
HasName(o) == o.kind \in {"class", "function", "typevar", "module"}
\* inspect.getsource(obj) finds a definition: not for an instance.
HasSource(o) == o.kind \in {"class", "function"}

\* An entry of `modules` (obj_info, class_info). has_source and import_needed
\* tell whether the dict has the key. obj and by are history fields: the object
\* the entry stands for and the object whose visit produced it ("" for an
\* entry made from a variable of the entry-file scan).
Entry(name, module, import_type, is_local, has_source, source, obj, by) ==
  [name |-> name, module |-> module, import_type |-> import_type,
   is_local |-> is_local, has_source |-> has_source, source |-> source,
   import_needed |-> "absent", obj |-> obj, by |-> by]

\* --------------------------------------------------------------- state

VARIABLES
  world,           \* the program under extraction (fixed during a run)
  pc,              \* the position in the call being made
  loc,             \* is_local_module: the module asked about and the result
  variables,       \* the result of scrape_init, passed to scrape_func
  fn_code,         \* scrape_func: the source without decorator lines
  used_variables,  \* scrape_func: used_variables
  stack,           \* get_obj_dependencies: the frames of the recursion
  processed,       \* get_obj_dependencies: the visited set (object ids)
  modules,         \* scrape_func: modules
  k,               \* scrape_func: the index of the loop of line 168
  class_info,      \* scrape_func: the local class_info
  emitted,         \* history: what each iteration of line 168 appended
  result,          \* scrape_func: the returned lists
  error,           \* the exception that ended the call ("" if none)
  history,         \* history: the outcomes of the calls made before this one
  cli              \* the command-line programs: the locals of main and of run

vars == <<world, pc, loc, variables, fn_code, used_variables, stack, processed,
          modules, k, class_info, emitted, result, error, history, cli>>

\* The command-line programs are not running.
NoCli == [running |-> "none"]

\* class_info before its first assignment.
Unbound == Entry(<<>>, "", "unbound", FALSE, FALSE, <<>>, "", "")

\* What an iteration of line 168 that appends nothing leaves in `emitted`.
Nothing == Entry(<<>>, "", "nothing", FALSE, FALSE, <<>>, "", "")

NoResult ==
  [local_modules |-> <<>>, selective_import_modules |-> <<>>,
   standard_import_modules |-> <<>>, variable_modules |-> <<>>,
   union_modules |-> <<>>]

\* A call of get_obj_dependencies(module.__dict__, code, processed).
Frame(scope, code) ==
  [scope |-> scope, i |-> 1, code |-> code, modules |-> <<>>,
   variables |-> <<>>, pending |-> Unbound]

\* ------------------------------------------------- get_obj_dependencies

Top == stack[Len(stack)]
Bindings(frame) == world.globals[frame.scope]
InLoop == pc = "scan" /\ Top.i <= Len(Bindings(Top))
Cur == Bindings(Top)[Top.i]
CurObj == world.objs[Cur.obj]

\* No object is ever found in the visited set (mutant).
NeverInProcessed(o) == FALSE

\* obj in processed: set membership goes by hash and equality.
InProcessed(o) == \E p \in processed : world.objs[p].eq = o.eq

\* Line 76 lets the binding through.
Fresh ==
  /\ InLoop
  /\ Contains(Top.code, Cur.name)
  /\ Hashable(CurObj)
  /\ ~InProcessed(CurObj)

\* Lines 76-81: the binding is visited (line 81 adds it to processed).
Visited == Fresh /\ ~StartsWith(Cur.name, <<"__">>)

Continue(frame) == [stack EXCEPT ![Len(stack)] = [frame EXCEPT !.i = @ + 1]]

ScanFrame == <<world, loc, variables, fn_code, used_variables, modules, k,
               class_info, emitted, result, history, cli>>

Fail(e) == pc' = "raised" /\ error' = e

\* Line 76 is false: the name is not in the text, or the object was visited.
GodSkip ==
  /\ InLoop
  /\ ~Contains(Top.code, Cur.name) \/ (Hashable(CurObj) /\ InProcessed(CurObj))
  /\ stack' = Continue(Top)
  /\ UNCHANGED <<ScanFrame, processed, pc, error>>

\* Line 76: `obj not in processed` hashes obj; an unhashable one raises.
GodUnhashable ==
  /\ InLoop
  /\ Contains(Top.code, Cur.name)
  /\ ~Hashable(CurObj)
  /\ Fail("TypeError")
  /\ UNCHANGED <<ScanFrame, processed, stack>>

\* Lines 78-79: a name with the double-underscore prefix is passed over.
GodDunder ==
  /\ Fresh
  /\ StartsWith(Cur.name, <<"__">>)
  /\ stack' = Continue(Top)
  /\ UNCHANGED <<ScanFrame, processed, pc, error>>

\* arg.__name__ if hasattr(arg, '__name__') else str(arg), line 85.
ArgName(arg) == IF HasName(arg) THEN arg.name ELSE Format(arg.value)

\* The members that are classes get no entry of their own (mutant).
NoMemberEntries(union) == <<>>

\* Lines 87-95: one selective, non-local entry per member that is a class.
MemberEntries(union) ==
  LET classes == SelectSeq(world.objs[union].args,
                           LAMBDA a : world.objs[a].kind = "class")
  IN [j \in 1..Len(classes) |->
        Entry(world.objs[classes[j]].name, world.objs[classes[j]].module,
              "selective", FALSE, FALSE, <<>>, classes[j], union)]

\* Lines 83-95: a union.
GodUnion ==
  /\ Visited
  /\ CurObj.kind = "union"
  /\ LET args == CurObj.args
         args_str == join(<<", ">>, [j \in 1..Len(args) |-> ArgName(world.objs[args[j]])])
         data == UnionData(Cur.name, PyStr(<<"Union[">> \o args_str \o <<"]">>), Cur.obj)
     IN stack' = Continue([Top EXCEPT !.variables = Append(@, data),
                                      !.modules = @ \o MemberEntries(Cur.obj)])
  /\ processed' = processed \cup {Cur.obj}
  /\ UNCHANGED <<ScanFrame, pc, error>>

\* Lines 96-97: an int, str, float or bool.
GodConstant ==
  /\ Visited
  /\ CurObj.kind = "const"
  /\ stack' = Continue([Top EXCEPT !.variables =
         Append(@, GlobalConstantData(Cur.name, PyStr(Format(CurObj.value)), Cur.obj))])
  /\ processed' = processed \cup {Cur.obj}
  /\ UNCHANGED <<ScanFrame, pc, error>>

\* Lines 98-105: a module.
GodModule ==
  /\ Visited
  /\ CurObj.kind = "module"
  /\ LET is_local == is_local_module(CurObj)
     IN IF is_local.exc # "none"
        THEN Fail(is_local.exc) /\ UNCHANGED stack
        ELSE /\ stack' = Continue([Top EXCEPT !.modules =
                   Append(@, Entry(Cur.name, CurObj.name, "standard", is_local.value,
                                   FALSE, <<>>, Cur.obj, Cur.obj))])
             /\ UNCHANGED <<pc, error>>
  /\ processed' = processed \cup {Cur.obj}
  /\ UNCHANGED ScanFrame

\* The branch of line 106.
Otherwise == Visited /\ CurObj.kind \notin {"union", "const", "module"}

\* Line 107: sys.modules.get(obj.__module__, None); TRUE when it is a module.
OwnerLoaded == CurObj.module \in world.sys_modules
Owner == world.objs[CurObj.module]

\* Line 107: obj.__module__ on an object without the attribute.
GodNoModuleAttr ==
  /\ Otherwise
  /\ ~HasModuleAttr(CurObj)
  /\ Fail("AttributeError")
  /\ processed' = processed \cup {Cur.obj}
  /\ UNCHANGED <<ScanFrame, stack>>

\* Line 108 is false: the owning module is not loaded, or was visited.
GodOwnerSkipped ==
  /\ Otherwise
  /\ HasModuleAttr(CurObj)
  /\ ~OwnerLoaded \/ InProcessed(Owner)
  /\ stack' = Continue(Top)
  /\ processed' = processed \cup {Cur.obj}
  /\ UNCHANGED <<ScanFrame, pc, error>>

\* Line 108 is true.
OwnerFresh ==
  /\ Otherwise
  /\ HasModuleAttr(CurObj)
  /\ OwnerLoaded
  /\ ~InProcessed(Owner)

\* Line 109 raises: the owning module's __file__ is None.
GodOwnerRaises ==
  /\ OwnerFresh
  /\ is_local_module(Owner).exc # "none"
  /\ Fail(is_local_module(Owner).exc)
  /\ processed' = processed \cup {Cur.obj}
  /\ UNCHANGED <<ScanFrame, stack>>

\* The obj_info of lines 110-115, with the source of lines 118 and 120.
ObjInfo(is_local, has_source, source) ==
  Entry(Cur.name, CurObj.module, "selective", is_local, has_source, source,
        Cur.obj, Cur.obj)

\* Lines 109-124 for an object of a module that is not local, and for a local
\* TypeVar (source ""): the entry is appended without a recursion.
GodSelective ==
  /\ OwnerFresh
  /\ is_local_module(Owner).exc = "none"
  /\ LET is_local == is_local_module(Owner).value
     IN /\ ~is_local \/ CurObj.kind = "typevar"
        /\ stack' = Continue([Top EXCEPT !.modules =
              Append(@, ObjInfo(is_local, is_local, <<>>))])
  /\ processed' = processed \cup {Cur.obj}
  /\ UNCHANGED <<ScanFrame, pc, error>>

\* Line 120 raises: inspect.getsource finds no definition for the object.
GodNoSource ==
  /\ OwnerFresh
  /\ is_local_module(Owner) = Ret(TRUE)
  /\ CurObj.kind # "typevar"
  /\ ~HasSource(CurObj)
  /\ Fail("TypeError")
  /\ processed' = processed \cup {Cur.obj}
  /\ UNCHANGED <<ScanFrame, stack>>

\* Lines 120-121: the source of a local object is scanned against the globals
\* of its module; obj_info waits in the caller's frame for line 124.
GodExpand ==
  /\ OwnerFresh
  /\ is_local_module(Owner) = Ret(TRUE)
  /\ CurObj.kind # "typevar"
  /\ HasSource(CurObj)
  /\ stack' = Append([stack EXCEPT ![Len(stack)] =
                        [Top EXCEPT !.pending = ObjInfo(TRUE, TRUE, CurObj.source)]],
                     Frame(CurObj.module, CurObj.source))
  /\ processed' = processed \cup {Cur.obj}
  /\ UNCHANGED <<ScanFrame, pc, error>>

\* Lines 122-124, after the recursive call of line 121 returned.
Resume(caller, callee) ==
  [caller EXCEPT !.modules = (@ \o callee.modules) \o <<caller.pending>>,
                 !.variables = @ \o callee.variables,
                 !.pending = Unbound,
                 !.i = @ + 1]

\* Line 126 of a recursive call: back to lines 122-124 of the caller.
GodReturn ==
  /\ pc = "scan"
  /\ Len(stack) > 1
  /\ Top.i > Len(Bindings(Top))
  /\ stack' = [SubSeq(stack, 1, Len(stack) - 1) EXCEPT ![Len(stack) - 1] =
                  Resume(stack[Len(stack) - 1], Top)]
  /\ UNCHANGED <<ScanFrame, processed, pc, error>>

\* Line 126 of the call of line 164, and line 165.
GodDone ==
  /\ pc = "scan"
  /\ Len(stack) = 1
  /\ Top.i > Len(Bindings(Top))
  /\ modules' = Top.modules
  /\ used_variables' = used_variables \o Top.variables
  /\ stack' = <<>>
  /\ k' = 1
  /\ pc' = "inline"
  /\ UNCHANGED <<world, loc, variables, fn_code, processed, class_info, emitted,
                 result, error, history, cli>>

\* ------------------------------------------------------------ the sorter

\* extract_dependencies(mod, local_modules): the names of the other local
\* entries that occur in the source text of mod. An entry without source
\* text mentions nothing.
extract_dependencies(mod, local_modules) ==
  IF ~mod.has_source THEN {}
  ELSE {local_modules[j].name : j \in {j \in 1..Len(local_modules) :
           /\ local_modules[j].name # mod.name
           /\ Contains(mod.source, local_modules[j].name)}}

\* Line 230: the dict from name to dependencies; a later entry with the same
\* name replaces the value an earlier one gave.
module_dependencies(local_modules) ==
  [n \in {local_modules[j].name : j \in 1..Len(local_modules)} |->
     LET last == CHOOSE j \in 1..Len(local_modules) :
                   /\ local_modules[j].name = n
                   /\ \A j2 \in 1..Len(local_modules) :
                        local_modules[j2].name = n => j2 <= j
     IN extract_dependencies(local_modules[last], local_modules)]

Names(entries) == {entries[j].name : j \in 1..Len(entries)}

\* The entries that can come next: every name they depend on is placed.
Ready(unsorted, sorted, dependencies) ==
  {j \in 1..Len(unsorted) : dependencies[unsorted[j].name] \subseteq Names(sorted)}

Without(seq, j) == SubSeq(seq, 1, j - 1) \o SubSeq(seq, j + 1, Len(seq))

Min(S) == CHOOSE x \in S : \A y \in S : x <= y
Max(S) == CHOOSE x \in S : \A y \in S : x >= y

\* The ready entry discovered last is taken, not the first (mutant).
PickLast(ready) == Max(ready)

\* Ties are broken by discovery order: the first ready entry is taken.
Pick(ready) == Min(ready)

\* sort_modules(modules, dependencies): a stable topological sort by repeated
\* selection of an entry with nothing left to wait for; CyclicDependency when
\* entries are left and none can be taken.
RECURSIVE SortFrom(_, _, _)
SortFrom(unsorted, sorted, dependencies) ==
  IF unsorted = <<>> THEN [exc |-> "none", value |-> sorted]
  ELSE LET ready == Ready(unsorted, sorted, dependencies)
       IN IF ready = {} THEN [exc |-> "CyclicDependency", value |-> <<>>]
          ELSE SortFrom(Without(unsorted, Pick(ready)),
                        Append(sorted, unsorted[Pick(ready)]), dependencies)

sort_modules(local_modules, dependencies) == SortFrom(local_modules, <<>>, dependencies)

\* ------------------------------------------------------------ scrape_func

\* The visited set of a call are the objects of the call before (a default
\* argument that is one set for all calls).
SharedProcessed(previous) == previous

\* Lines 69-71: called without a visited set, get_obj_dependencies makes a
\* new empty one, whatever an earlier call left in its own.
FreshProcessed(previous) == {}

\* Lines 148-164: the source is stripped of decorator lines, the variables
\* whose name occurs in it are kept, and the globals scan starts.
ScrapeFunc ==
  /\ pc = "scraped"
  /\ fn_code' = strip_decorators(world.func_source)
  /\ used_variables' = SelectSeq(variables, LAMBDA v : Contains(fn_code', v.target))
  /\ stack' = <<Frame(world.entry, fn_code')>>
  /\ processed' = FreshProcessed(processed)
  /\ pc' = "scan"
  /\ UNCHANGED <<world, loc, variables, modules, k, class_info, emitted, result, error,
                 history, cli>>

InlineLoop == pc = "inline" /\ k <= Len(used_variables)
Var == used_variables[k]

\* Line 170.
IsYaml(v) == IsStr(v.value) /\ EndsWith(v.value.s, <<".yaml">>)

\* Line 173: Path(f"src/{cwd.name}/{value}").exists().
YamlExists(v) == v.value.s \in world.yaml_files

\* f"{yaml.safe_load(file)}": the repr of the parsed file.
YamlData(v) == <<"{'x': 1}">>

\* A variable entry (lines 177-183, 186-192, 196-202).
VariableEntry(v, import_type, value_text) ==
  Entry(v.target, "None", import_type, FALSE, TRUE,
        v.target \o <<" = ">> \o value_text \o <<"\n">>, v.obj, v.obj)

\* The file's name is inlined, not what it holds (mutant).
YamlEntryLiteral(v) == VariableEntry(v, "variable", Format(v.value))

\* Lines 176-183: the parsed contents are assigned to the name.
YamlEntry(v) == VariableEntry(v, "variable", YamlData(v))

InlineFrame == <<world, loc, variables, fn_code, used_variables, stack, processed, result,
                 history, cli>>

Emit(entry) ==
  /\ modules' = Append(modules, entry)
  /\ emitted' = Append(emitted, entry)
  /\ k' = k + 1

\* Lines 170-183 and 193: a constant naming a YAML file that exists.
InlineYaml ==
  /\ InlineLoop
  /\ Var.type = "constant"
  /\ IsYaml(Var)
  /\ YamlExists(Var)
  /\ class_info' = YamlEntry(Var)
  /\ Emit(class_info')
  /\ UNCHANGED <<InlineFrame, pc, error>>

\* Lines 170-173 and 193: the YAML file is missing, class_info is not
\* assigned, and line 193 appends whatever class_info holds from an earlier
\* iteration.
InlineYamlMissing ==
  /\ InlineLoop
  /\ Var.type = "constant"
  /\ IsYaml(Var)
  /\ ~YamlExists(Var)
  /\ class_info # Unbound
  /\ Emit(class_info)
  /\ UNCHANGED <<InlineFrame, class_info, pc, error>>

\* Line 193 reads class_info before any iteration assigned it.
InlineYamlUnbound ==
  /\ InlineLoop
  /\ Var.type = "constant"
  /\ IsYaml(Var)
  /\ ~YamlExists(Var)
  /\ class_info = Unbound
  /\ Fail("UnboundLocalError")
  /\ UNCHANGED <<InlineFrame, modules, k, class_info, emitted>>

\* Lines 184-193: any other constant.
InlineConstant ==
  /\ InlineLoop
  /\ Var.type = "constant"
  /\ ~IsYaml(Var)
  /\ class_info' = VariableEntry(Var, "variable", Format(Var.value))
  /\ Emit(class_info')
  /\ UNCHANGED <<InlineFrame, pc, error>>

\* Lines 195-202.
UnionEntry(v) == VariableEntry(v, "union", Format(v.value))

\* Lines 194-203: a union alias.
InlineUnion ==
  /\ InlineLoop
  /\ Var.type = "union"
  /\ class_info' = UnionEntry(Var)
  /\ Emit(class_info')
  /\ UNCHANGED <<InlineFrame, pc, error>>

\* Line 206: context_globals.get(cls_name); TRUE when the name is bound.
ClassBound(v) == \E j \in 1..Len(world.globals[world.entry]) :
                    world.globals[world.entry][j].name = v.cls_name
VarClass(v) ==
  world.objs[(CHOOSE b \in {world.globals[world.entry][j] :
                              j \in 1..Len(world.globals[world.entry])} :
                b.name = v.cls_name).obj]

\* Line 207: var_class and inspect.isclass(var_class).
IsBoundClass(v) == ClassBound(v) /\ VarClass(v).kind = "class"

\* Lines 216-221: the keyword arguments of the call.
RECURSIVE KeywordText(_, _)
KeywordText(v, j) ==
  IF j > Len(v.keywords) THEN <<>>
  ELSE (IF IsStr(v.values[j])
        THEN v.keywords[j] \o <<"=\"">> \o Format(v.values[j]) \o <<"\", ">>
        ELSE v.keywords[j] \o <<"=">> \o Format(v.values[j]) \o <<", ">>)
       \o KeywordText(v, j + 1)

\* Lines 209-225: the entry of a call-kind variable, named after the class.
CallEntry(v) ==
  [Entry(v.cls_name, VarClass(v).module, "variable", FALSE, TRUE,
         v.target \o <<" = ">> \o v.cls_name \o <<"(">> \o KeywordText(v, 1) \o <<")\n">>,
         v.obj, v.obj)
   EXCEPT !.import_needed =
     IF \E j \in 1..Len(modules) : modules[j].name = v.cls_name
     THEN "False" ELSE "absent"]

\* Lines 204-226: a call-kind variable whose class is bound in the globals.
InlineCall ==
  /\ InlineLoop
  /\ Var.type = "call"
  /\ IsBoundClass(Var)
  /\ VarClass(Var).module \in world.sys_modules
  /\ class_info' = CallEntry(Var)
  /\ Emit(class_info')
  /\ UNCHANGED <<InlineFrame, pc, error>>

\* Line 208: sys.modules[var_class.__module__] of a module that is not loaded.
InlineCallKeyError ==
  /\ InlineLoop
  /\ Var.type = "call"
  /\ IsBoundClass(Var)
  /\ VarClass(Var).module \notin world.sys_modules
  /\ Fail("KeyError")
  /\ UNCHANGED <<InlineFrame, modules, k, class_info, emitted>>

\* Line 207 is false: nothing is appended for the variable.
InlineCallSkipped ==
  /\ InlineLoop
  /\ Var.type = "call"
  /\ ~IsBoundClass(Var)
  /\ emitted' = Append(emitted, Nothing)
  /\ k' = k + 1
  /\ UNCHANGED <<InlineFrame, modules, class_info, pc, error>>

\* Line 228.
NotLogger(entries) == SelectSeq(entries, LAMBDA m : m.name # <<"logger">>)

\* Line 229.
LocalModules(entries) == SelectSeq(entries, LAMBDA m : m.is_local)

\* Lines 230-231.
SortedLocal(entries) ==
  sort_modules(LocalModules(entries), module_dependencies(LocalModules(entries)))

\* Lines 232-235.
Partition(entries, sorted) ==
  [local_modules |-> sorted,
   selective_import_modules |->
     SelectSeq(entries, LAMBDA m : ~m.is_local /\ m.import_type = "selective"),
   standard_import_modules |-> SelectSeq(entries, LAMBDA m : m.import_type = "standard"),
   variable_modules |-> SelectSeq(entries, LAMBDA m : m.import_type = "variable"),
   union_modules |-> SelectSeq(entries, LAMBDA m : m.import_type = "union")]

\* Lines 228-237: the entries are filtered, the local ones sorted, and the
\* five lists returned; a cycle ends the call with the sorter's error.
Assemble ==
  /\ pc = "inline"
  /\ k > Len(used_variables)
  /\ modules' = NotLogger(modules)
  /\ LET sorted == SortedLocal(modules')
     IN IF sorted.exc # "none"
        THEN Fail(sorted.exc) /\ UNCHANGED result
        ELSE /\ result' = Partition(modules', sorted.value)
             /\ pc' = "done"
             /\ UNCHANGED error
  /\ UNCHANGED <<world, loc, variables, fn_code, used_variables, stack, processed,
                 k, class_info, emitted, history, cli>>

\* ------------------------------------------------------------- programs

\* The modules of the modelled programs: E (the entry file) and A are in the
\* project directory /p, X is installed outside it, Y has __file__ = None.
\* A class may also name a module Z that sys.modules does not hold.
BaseObjs ==
  [E |-> ModuleObj("E", "path", <<"/", "p", "/", "e.py">>),
   A |-> ModuleObj("A", "path", <<"/", "p", "/", "a.py">>),
   X |-> ModuleObj("X", "path", <<"/", "q", "/", "x.py">>),
   Y |-> ModuleObj("Y", "none", <<>>),
   TA |-> Obj("class", "X", <<"TA">>, <<"class ", "TA">>, PyNone, <<>>, "TA"),
   TB |-> Obj("class", "X", <<"TB">>, <<"class ", "TB">>, PyNone, <<>>, "TB"),
   G1 |-> Obj("generic", "X", <<>>, <<>>, PyStr(<<"List[int]">>), <<>>, "G1"),
   u1 |-> Obj("union", "X", <<>>, <<>>, PyNone, <<"TA", "TB">>, "u1"),
   u2 |-> Obj("union", "X", <<>>, <<>>, PyNone, <<"TA", "G1">>, "u2"),
   i1 |-> Obj("const", "", <<>>, <<>>, PyInt("1"), <<>>, "1"),
   i2 |-> Obj("const", "", <<>>, <<>>, PyInt("2"), <<>>, "2"),
   m2 |-> Obj("const", "", <<>>, <<>>, PyInt("-2"), <<>>, "-2"),
   f1 |-> Obj("const", "", <<>>, <<>>, PyFloat("1.0"), <<>>, "1"),   \* 1.0 == 1
   bt |-> Obj("const", "", <<>>, <<>>, PyBool("True"), <<>>, "1"),   \* True == 1
   sy |-> Obj("const", "", <<>>, <<>>, PyStr(<<"s", ".yaml">>), <<>>, "sy"),
   sh |-> Obj("const", "", <<>>, <<>>, PyStr(<<"hi">>), <<>>, "sh"),
   K |-> Obj("class", "E", <<"K">>, <<"class ", "K">>, PyNone, <<>>, "K"),
   inst |-> Obj("instance", "E", <<>>, <<>>, PyNone, <<>>, "inst"),
   lst |-> Obj("list", "", <<>>, <<>>, PyNone, <<>>, "lst"),
   tup |-> Obj("tuple", "", <<>>, <<>>, PyNone, <<>>, "tup"),
   T1 |-> Obj("typevar", "E", <<"T">>, <<>>, PyNone, <<>>, "T1"),
   LG |-> Obj("instance", "X", <<>>, <<>>, PyNone, <<>>, "LG"),
   cfg |-> Obj("instance", "X", <<>>, <<>>, PyNone, <<>>, "cfg"),
   CZ |-> Obj("class", "Z", <<"CZ">>, <<"class ", "CZ">>, PyNone, <<>>, "CZ"),
   FY |-> Obj("function", "Y", <<"fy">>, <<"def ", "fy">>, PyNone, <<>>, "FY"),
   FA2 |-> Obj("function", "A", <<"f">>, <<"def ", "f", "():">>, PyNone, <<>>, "FA2")]

Loaded == {"E", "A", "X", "Y", "M"}

Bind(name, obj) == [name |-> name, obj |-> obj]

\* A call scrape_func(func, scrape_init(file)) in a program.
Program(file, func_source, globals, objs, yaml_files) ==
  [call |-> "scrape_func", module |-> BaseObjs.E, file |-> file,
   func_source |-> func_source, entry |-> "E", globals |-> globals,
   objs |-> objs, sys_modules |-> Loaded, yaml_files |-> yaml_files]

\* A call is_local_module(module).
LocalCall(module) ==
  [call |-> "is_local_module", module |-> module, file |-> <<>>,
   func_source |-> <<>>, entry |-> "E", globals |-> [E |-> <<>>, A |-> <<>>],
   objs |-> BaseObjs, sys_modules |-> Loaded, yaml_files |-> {}]

\* The sequences without repetition of at most n elements of S.
RECURSIVE Arrangements(_, _)
Arrangements(S, n) ==
  IF n = 0 THEN {<<>>}
  ELSE {<<>>} \cup {<<x>> \o rest : x \in S, rest \in Arrangements(S, n - 1)}

Injective(seq) == \A i, j \in 1..Len(seq) : seq[i] = seq[j] => i = j

\* The sequences of at most n elements of S.
RECURSIVE Sequences(_, _)
Sequences(S, n) ==
  IF n = 0 THEN {<<>>}
  ELSE {<<>>} \cup {<<x>> \o rest : x \in S, rest \in Sequences(S, n - 1)}

\* The text of a set of tokens of T, in the order of Order.
RECURSIVE Mention(_, _)
Mention(Order, T) ==
  IF Order = <<>> THEN <<>>
  ELSE (IF Order[1] \in T THEN <<Order[1], " ">> ELSE <<>>) \o Mention(Tail(Order), T)

\* ---- three local functions f, g, h of E that mention one another

Fn(module, name, refs) ==
  Obj("function", module, <<name>>, <<"def ", name, "():", "\n", " ">> \o refs, PyNone, <<>>, name)

SortPrograms ==
  {Program(<<>>,
           <<"@", "deco", "\n", "def ", "main", "():", "\n", " ">> \o Mention(<<"f", "g", "h">>, used),
           [E |-> order, A |-> <<>>],
           [F |-> Fn("E", "f", Mention(<<"g", "h">>, rf)),
            G |-> Fn("E", "g", Mention(<<"f", "h">>, rg)),
            H |-> Fn("E", "h", Mention(<<"f", "g">>, rh))] @@ BaseObjs,
           {}) :
     order \in {o \in Arrangements({Bind(<<"f">>, "F"), Bind(<<"g">>, "G"), Bind(<<"h">>, "H")}, 3) :
                  Len(o) = 3 /\ Injective(o)},
     used \in {{"f", "g", "h"}, {"f"}},
     rf \in SUBSET {"g", "h"}, rg \in SUBSET {"f", "h"}, rh \in SUBSET {"f", "g"}}

\* ---- functions of two local modules: E binds n, b and a (a function of A),
\* A binds q and, in some programs, a TypeVar under the name n. A source
\* text may mention a name that the module of the function does not bind.

TwoModulePrograms ==
  {Program(<<>>,
           <<"def ", "main", "():", "\n", " ", "n", " ", "b", " ", "a">>,
           [E |-> order, A |-> scopeA],
           [P |-> Fn("E", "n", Mention(<<"q", "b">>, rp)),
            B |-> Fn("E", "b", Mention(<<"n">>, rb)),
            FA |-> Fn("A", "a", Mention(<<"q", "n">>, ra)),
            Q |-> Fn("A", "q", Mention(<<"n">>, rq)),
            TN |-> Obj("typevar", "A", <<"n">>, <<>>, PyNone, <<>>, "TN")] @@ BaseObjs,
           {}) :
     order \in {o \in Arrangements({Bind(<<"n">>, "P"), Bind(<<"b">>, "B"), Bind(<<"a">>, "FA")}, 3) :
                  Len(o) = 3 /\ Injective(o)},
     scopeA \in {<<Bind(<<"q">>, "Q")>>,
                 <<Bind(<<"q">>, "Q"), Bind(<<"n">>, "TN")>>,
                 <<Bind(<<"n">>, "TN"), Bind(<<"q">>, "Q")>>},
     rp \in SUBSET {"q", "b"}, rb \in SUBSET {"n"},
     ra \in SUBSET {"q", "n"}, rq \in SUBSET {"n"}}

\* ---- the modules is_local_module is asked about

Paths ==
  {<<"/", "p", "/", "a.py">>,                     \* in the project directory
   <<"/", "p", "/", "lib", "/", "a.py">>,         \* in a subdirectory of it
   <<"lib", "/", "a.py">>,                        \* the same, relative
   <<"/", "p", "/", ".venv", "/", "a.py">>,       \* vendored
   <<"/", "p", "/", ".venv", "2", "/", "a.py">>,  \* /p/.venv2: not vendored
   <<"/", "p", "2", "/", "a.py">>,                \* /p2: a sibling of /p
   <<"/", "q", "/", "a.py">>}                     \* elsewhere

LocalCalls ==
  {LocalCall(ModuleObj("M", "path", path)) : path \in Paths}
  \cup {LocalCall(ModuleObj("M", "absent", <<>>)), LocalCall(ModuleObj("M", "none", <<>>))}

\* ---- entry files of top-level assignments to c and d

TName(id) == [isName |-> TRUE, id |-> id]
TOther == [isName |-> FALSE, id |-> <<>>]

Statements ==
  {Assign(1, <<TName(<<"c">>)>>, Constant(PyInt("1"))),            \* c = 1
   Assign(1, <<TName(<<"c">>)>>, Constant(PyInt("2"))),            \* c = 2
   Assign(1, <<TName(<<"c">>)>>, Constant(PyStr(<<"s", ".yaml">>))), \* c = "s.yaml"
   Assign(1, <<TName(<<"c">>)>>, Constant(PyStr(<<"hi">>))),       \* c = "hi"
   Assign(1, <<TName(<<"c">>)>>, Other(<<"-2">>)),                 \* c = -2
   Assign(1, <<TName(<<"c">>)>>, Other(<<"[]">>)),                 \* c = []
   Assign(1, <<TName(<<"c">>)>>,                                   \* c = K(a="v")
          Call(Name(<<"K">>), <<Keyword(<<"a">>, Constant(PyStr(<<"v">>)))>>)),
   Assign(1, <<TName(<<"c">>)>>,                                   \* c = CZ()
          Call(Name(<<"CZ">>), <<>>)),
   Assign(1, <<TName(<<"c">>)>>,                                   \* c = m.K()
          Call(Attribute(Name(<<"m">>), <<"K">>), <<>>)),
   Assign(2, <<TName(<<"c">>)>>, Constant(PyInt("2"))),            \* def ...: c = 2
   Assign(2, <<TName(<<"c">>)>>,                                   \* def ...: c = K(a="v")
          Call(Name(<<"K">>), <<Keyword(<<"a">>, Constant(PyStr(<<"v">>)))>>)),
   Assign(2, <<TName(<<"c">>)>>, Call(Name(<<"make">>), <<>>)),    \* def ...: c = make()
   Assign(1, <<TName(<<"d">>)>>, Constant(PyInt("1"))),            \* d = 1
   Assign(1, <<TOther, TName(<<"d">>)>>, Constant(PyInt("2")))}    \* K.x = d = 2

\* The object a right-hand side of Statements evaluates to.
ValueObj(value) ==
  CASE value = Constant(PyInt("1")) -> "i1"
    [] value = Constant(PyInt("2")) -> "i2"
    [] value = Constant(PyStr(<<"s", ".yaml">>)) -> "sy"
    [] value = Constant(PyStr(<<"hi">>)) -> "sh"
    [] value = Other(<<"-2">>) -> "m2"
    [] value = Other(<<"[]">>) -> "lst"
    [] OTHER -> "inst"

\* The bindings that executing the top-level statements leaves in the
\* globals of the entry module: a dict, so a name keeps the position of its
\* first assignment and the object of its last.
RECURSIVE Execute(_, _, _)
Execute(bindings, file, i) ==
  IF i > Len(file) THEN bindings
  ELSE IF file[i].depth # 1 THEN Execute(bindings, file, i + 1)
  ELSE LET names == {file[i].targets[j].id : j \in {j \in 1..Len(file[i].targets) : file[i].targets[j].isName}}
           obj == ValueObj(file[i].value)
           rebound == [j \in 1..Len(bindings) |->
                         IF bindings[j].name \in names THEN Bind(bindings[j].name, obj)
                         ELSE bindings[j]]
           new == {n \in names : \A j \in 1..Len(bindings) : bindings[j].name # n}
       IN Execute(rebound \o (IF new = {} THEN <<>> ELSE <<Bind(CHOOSE n \in new : TRUE, obj)>>),
                  file, i + 1)

\* The longest entry file.
MaxStatements == 2

\* A file that constructs K is scraped for a body that mentions K and for one
\* that does not; a file that names s.yaml with and without that file.
BodyUses(file) ==
  IF \E i \in 1..Len(file) : file[i].value.node = "Call" /\ file[i].value.func = Name(<<"K">>)
  THEN {<<>>, <<"K">>} ELSE {<<>>}
YamlFiles(file) ==
  IF \E i \in 1..Len(file) : file[i].value = Constant(PyStr(<<"s", ".yaml">>))
  THEN {{}, {<<"s", ".yaml">>}} ELSE {{}}

FilePrograms ==
  UNION {{Program(file,
                  <<"def ", "main", "():", "\n", " ", "c", " ", "d", " ">> \o uses,
                  [E |-> Execute(<<Bind(<<"K">>, "K"), Bind(<<"CZ">>, "CZ")>>, file, 1),
                   A |-> <<>>],
                  BaseObjs,
                  yaml_files) :
            uses \in BodyUses(file), yaml_files \in YamlFiles(file)} :
         file \in Sequences(Statements, MaxStatements) \ {<<>>}}

\* ---- union aliases, their member classes and other names for them

\* The longest scope drawn from a pool of bindings.
MaxScope == 3

Scopes(pool) == {scope \in Arrangements(pool, MaxScope) : scope # <<>> /\ Injective(scope)}

RECURSIVE MentionAll(_)
MentionAll(names) ==
  IF names = <<>> THEN <<>> ELSE names[1] \o <<" ">> \o MentionAll(Tail(names))

ScopeProgram(scope, names) ==
  Program(<<>>, <<"def ", "main", "():", "\n", " ">> \o MentionAll(names),
          [E |-> scope, A |-> <<Bind(<<"f">>, "FA2")>>], BaseObjs, {})

UnionPrograms ==
  {ScopeProgram(scope, <<<<"U">>, <<"V">>, <<"W">>, <<"TA">>, <<"TX">>, <<"__", "u">>,
                         <<"logger">>>>) :
     scope \in Scopes({Bind(<<"U">>, "u1"), Bind(<<"V">>, "u1"), Bind(<<"W">>, "u2"),
                       Bind(<<"TA">>, "TA"), Bind(<<"TX">>, "TA"),
                       Bind(<<"__", "u">>, "u1"),
                       Bind(<<"logger">>, "LG")})}

\* ---- a function of A under two names, the module A itself, and objects
\* the scan cannot classify

AliasPrograms ==
  {ScopeProgram(scope, <<<<"m">>, <<"f">>, <<"g">>, <<"T">>, <<"y">>, <<"fy">>,
                         <<"i">>, <<"t">>>>) :
     scope \in Scopes({Bind(<<"m">>, "A"), Bind(<<"f">>, "FA2"), Bind(<<"g">>, "FA2"),
                       Bind(<<"T">>, "T1"), Bind(<<"y">>, "Y"), Bind(<<"fy">>, "FY"),
                       Bind(<<"i">>, "inst"), Bind(<<"t">>, "tup")})}

\* ---- constants that compare equal: 1, 1.0 and True; 1 under two names; a
\* string

EqualPrograms ==
  {ScopeProgram(scope, <<<<"one">>, <<"x">>, <<"t">>, <<"two">>, <<"also">>, <<"s">>>>) :
     scope \in Scopes({Bind(<<"one">>, "i1"), Bind(<<"x">>, "f1"), Bind(<<"t">>, "bt"),
                       Bind(<<"two">>, "i2"), Bind(<<"also">>, "i1"), Bind(<<"s">>, "sh")})}

\* ---- an entry file c = TA(k1=..., ...) that constructs a class of X

\* The expressions given as keyword values.
KwValues ==
  {Constant(PyStr(<<"v">>)),                                \* "v"
   Constant(PyInt("1")),                                    \* 1
   Name(<<"x">>),                                           \* x
   Attribute(Name(<<"m">>), <<"x">>),                       \* m.x
   Call(Name(<<"make">>), <<>>),                            \* make()
   Call(Attribute(Name(<<"m">>), <<"make">>), <<>>),        \* m.make()
   Other(<<"[1]">>)}                                        \* [1]

\* The most keyword arguments of a call.
MaxKeywords == 2

KwName(j) == <<"k", ToString(j)>>

CallPrograms ==
  {Program(<<Assign(1, <<TName(<<"c">>)>>,
                    Call(Name(<<"TA">>),
                         [j \in 1..Len(values) |-> Keyword(KwName(j), values[j])]))>>,
           <<"def ", "main", "():", "\n", " ", "c", " ">> \o uses,
           [E |-> <<Bind(<<"TA">>, "TA"), Bind(<<"c">>, "cfg")>>, A |-> <<>>],
           BaseObjs,
           {}) :
     values \in Sequences(KwValues, MaxKeywords),
     uses \in {<<>>, <<"TA">>}}

\* ---- a function under decorators, with body lines that start with "@"

\* The decorators above the definition, as lines.
Headers ==
  {<<>>,
   <<<<"@", "deco">>>>,                                        \* @deco
   <<<<"@", "deco">>, <<"@", "other">>>>,                      \* @deco, @other
   <<<<"@", "deco", "(">>, <<" ", "arg">>, <<")">>>>}          \* @deco(\n arg\n)

\* Function bodies, as lines: pass, and a matrix product whose second line
\* starts with the operator "@".
Bodies ==
  {<<<<" ", "pass">>>>,
   <<<<" ", "x", " = ", "(", "a">>, <<" ", "@", " ", "b", ")">>>>,
   <<<<" ", "pass">>, <<" ", "x", " = ", "(", "a">>, <<" ", "@", " ", "b", ")">>>>}

DecoPrograms ==
  {Program(<<>>,
           join(<<"\n">>, header \o <<<<"def ", "main", "():">>>> \o body) \o <<"\n">>,
           [E |-> <<>>, A |-> <<>>], BaseObjs, {}) :
     header \in Headers,
     body \in Bodies}

\* ---- a module M and a function of it, with M at each of the paths

PathPrograms ==
  {Program(<<>>, <<"def ", "main", "():", "\n", " ", "M", " ", "fm">>,
           [E |-> scope, A |-> <<>>, M |-> <<Bind(<<"fm">>, "FM")>>],
           [M |-> module,
            FM |-> Obj("function", "M", <<"fm">>, <<"def ", "fm", "():">>, PyNone, <<>>, "FM")]
             @@ BaseObjs,
           {}) :
     scope \in {<<Bind(<<"M">>, "M"), Bind(<<"fm">>, "FM")>>,
                <<Bind(<<"fm">>, "FM"), Bind(<<"M">>, "M")>>,
                <<Bind(<<"fm">>, "FM")>>},
     module \in {ModuleObj("M", "path", path) : path \in Paths}
                  \cup {ModuleObj("M", "absent", <<>>)}}

Programs ==
  SortPrograms \cup TwoModulePrograms \cup FilePrograms \cup UnionPrograms
    \cup AliasPrograms \cup PathPrograms \cup EqualPrograms \cup CallPrograms
    \cup DecoPrograms

\* --------------------------------------------------------- specification

Init ==
  /\ world \in Programs \cup LocalCalls
  /\ pc = "start"
  /\ loc = Ret(FALSE)
  /\ variables = <<>>
  /\ fn_code = <<>>
  /\ used_variables = <<>>
  /\ stack = <<>>
  /\ processed = {}
  /\ modules = <<>>
  /\ k = 1
  /\ class_info = Unbound
  /\ emitted = <<>>
  /\ result = NoResult
  /\ error = ""
  /\ history = <<>>
  /\ cli = NoCli

\* is_local_module(world.module).
IsLocalModule ==
  /\ pc = "start"
  /\ world.call = "is_local_module"
  /\ loc' = is_local_module(world.module)
  /\ pc' = IF loc'.exc = "none" THEN "done" ELSE "raised"
  /\ error' = IF loc'.exc = "none" THEN "" ELSE loc'.exc
  /\ UNCHANGED <<world, variables, fn_code, used_variables, stack, processed,
                 modules, k, class_info, emitted, result, history, cli>>

\* scrape_init(file_path) on the entry file.
ScrapeInit ==
  /\ pc = "start"
  /\ world.call = "scrape_func"
  /\ variables' = scrape_init(world.file)
  /\ pc' = "scraped"
  /\ UNCHANGED <<world, loc, fn_code, used_variables, stack, processed, modules,
                 k, class_info, emitted, result, error, history, cli>>

Next ==
  \/ IsLocalModule
  \/ ScrapeInit
  \/ ScrapeFunc
  \/ GodSkip
  \/ GodUnhashable
  \/ GodDunder
  \/ GodUnion
  \/ GodConstant
  \/ GodModule
  \/ GodNoModuleAttr
  \/ GodOwnerSkipped
  \/ GodOwnerRaises
  \/ GodSelective
  \/ GodNoSource
  \/ GodExpand
  \/ GodReturn
  \/ GodDone
  \/ InlineYaml
  \/ InlineYamlMissing
  \/ InlineYamlUnbound
  \/ InlineConstant
  \/ InlineUnion
  \/ InlineCall
  \/ InlineCallKeyError
  \/ InlineCallSkipped
  \/ Assemble

Spec == Init /\ [][Next]_vars

\* ---- the scan of line 164 alone, run to its end

\* The steps up to the return or the exception of get_obj_dependencies.
NextScan ==
  \/ ScrapeInit
  \/ ScrapeFunc
  \/ GodSkip
  \/ GodUnhashable
  \/ GodDunder
  \/ GodUnion
  \/ GodConstant
  \/ GodModule
  \/ GodNoModuleAttr
  \/ GodOwnerSkipped
  \/ GodOwnerRaises
  \/ GodSelective
  \/ GodNoSource
  \/ GodExpand
  \/ GodReturn
  \/ GodDone

\* The interpreter runs the call on: a step that can be taken is taken.
SpecScan == Init /\ [][NextScan]_vars /\ WF_vars(NextScan)

\* ---- the extraction called again on the same function

\* What a call of scrape_func leaves to its caller: the returned source text
\* and lists, or the exception.
Outcome == [ended |-> pc, error |-> error, fn_code |-> fn_code, result |-> result]

\* The calls of scrape_func made one after the other in a run.
MaxCalls == 2

\* scrape_func(func, variables) is called again, with the program unchanged:
\* the locals of the call that ended are gone, its visited set is garbage.
CallAgain ==
  /\ world.call = "scrape_func"
  /\ pc \in {"done", "raised"}
  /\ Len(history) < MaxCalls - 1
  /\ history' = Append(history, Outcome)
  /\ pc' = "scraped"
  /\ fn_code' = <<>>
  /\ used_variables' = <<>>
  /\ stack' = <<>>
  /\ modules' = <<>>
  /\ k' = 1
  /\ class_info' = Unbound
  /\ emitted' = <<>>
  /\ result' = NoResult
  /\ error' = ""
  /\ UNCHANGED <<world, loc, variables, processed, cli>>

NextTwice == Next \/ CallAgain

SpecTwice == Init /\ [][NextTwice]_vars

\* ---- the scan of line 164 under another iteration order of a scope

\* What get_obj_dependencies gave scrape_func at line 164: the entries and
\* the variable records it returned, as sets, or the exception. An entry
\* counts by its name, module, import kind and locality; a record by its
\* type, target and value.
Returns(frame) ==
  [ended |-> "returned",
   entries |-> {[name |-> m.name, module |-> m.module,
                 import_type |-> m.import_type, is_local |-> m.is_local] :
                m \in {frame.modules[j] : j \in 1..Len(frame.modules)}},
   variables |-> {[type |-> v.type, target |-> v.target, value |-> v.value] :
                  v \in {frame.variables[j] : j \in 1..Len(frame.variables)}}]

Raises(e) == [ended |-> e, entries |-> {}, variables |-> {}]

\* The call of line 164 is at its return (line 126) or has raised.
ScanEnded ==
  /\ world.call = "scrape_func"
  /\ \/ pc = "scan" /\ Len(stack) = 1 /\ Top.i > Len(Bindings(Top))
     \/ pc = "raised" /\ stack # <<>>

ScanOutcome == IF pc = "raised" THEN Raises(error) ELSE Returns(Top)

\* The bindings of a scope in the iteration order p (line 75: items()).
Reordered(bindings, p) == [j \in 1..Len(bindings) |-> bindings[p[j]]]

\* The same scan is made again with the dict of one scope iterating in
\* another order: same bindings, same body text, a new visited set.
ScanReordered ==
  /\ ScanEnded
  /\ Len(history) < MaxCalls - 1
  /\ history' = Append(history, ScanOutcome)
  /\ \E scope \in DOMAIN world.globals :
       \E p \in Permutations(1..Len(world.globals[scope])) :
          world' = [world EXCEPT !.globals[scope] = Reordered(@, p)]
  /\ pc' = "scraped"
  /\ stack' = <<>>
  /\ error' = ""
  /\ UNCHANGED <<loc, variables, fn_code, used_variables, processed, modules, k,
                 class_info, emitted, result, cli>>

NextReordered == NextScan \/ ScanReordered

SpecReordered == Init /\ [][NextReordered]_vars

\* ------------------------------------ the SDK command line (main, cli.py)

\* The commands of line 381, which talk to the hub.
HubCommands ==
  {"nodes", "agents", "orchestrators", "environments", "personas", "run",
   "read_storage", "write_storage", "publish"}

\* args.command: a subcommand of the parser, or None when none is given.
Commands == HubCommands \cup {"signup", "None"}

\* args.parameters of `run`: absent, a JSON object, key=value pairs, or a
\* word without `=`.
Parameters == {"None", "json", "pairs", "word"}

\* A run of main: the command line, the environment variables HUB_USER and
\* HUB_PASS (set or not), and whether the hub session that `async with`
\* hands over is authenticated already.
MainRun(command, parameters, is_authenticated, hub_username, hub_password) ==
  [call |-> "main", command |-> command, parameters |-> parameters,
   is_authenticated |-> is_authenticated, hub_username |-> hub_username,
   hub_password |-> hub_password]

MainRuns ==
  UNION {{MainRun(c, p, a, u, w) :
            p \in (IF c = "run" THEN Parameters ELSE {"None"}),
            a \in BOOLEAN, u \in BOOLEAN, w \in BOOLEAN} : c \in Commands}

\* The local user_id of main before an assignment binds it.
UnboundLocal == "unbound"

\* The locals of main at line 378, the state of the hub session, and the
\* calls made on the hub so far (history: the command and whether the
\* session was authenticated when it ran).
MainLocals(run) ==
  [running |-> "main", is_authenticated |-> run.is_authenticated,
   user_id |-> UnboundLocal, signed_in |-> FALSE, called |-> <<>>]

\* The variables of the extractor, which the command line leaves alone.
CliFrame == <<world, loc, variables, fn_code, used_variables, stack, processed,
              modules, k, class_info, emitted, result, history>>

InMain(at) == world.call = "main" /\ pc = at

\* Lines 379-380: signup binds user_id from user_setup_flow, or that raises.
MainSignup ==
  /\ InMain("start")
  /\ world.command = "signup"
  /\ \/ cli' = [cli EXCEPT !.user_id = "user:1"] /\ pc' = "done" /\ UNCHANGED error
     \/ Fail("Exception") /\ UNCHANGED cli
  /\ UNCHANGED CliFrame

\* Lines 547-548: no hub command and no signup: the help is printed.
MainHelp ==
  /\ InMain("start")
  /\ world.command \notin HubCommands \cup {"signup"}
  /\ pc' = "done"
  /\ UNCHANGED <<CliFrame, cli, error>>

\* Line 382 is false: the session is authenticated, nothing is assigned.
MainAuthenticated ==
  /\ InMain("start")
  /\ world.command \in HubCommands
  /\ cli.is_authenticated
  /\ pc' = "dispatch"
  /\ UNCHANGED <<CliFrame, cli, error>>

\* Lines 383-385: no credentials in the environment: a message, and return.
MainNoCredentials ==
  /\ InMain("start")
  /\ world.command \in HubCommands
  /\ ~cli.is_authenticated
  /\ ~world.hub_username \/ ~world.hub_password
  /\ pc' = "done"
  /\ UNCHANGED <<CliFrame, cli, error>>

\* Line 386: the hub signs the user in and user_id is bound to the third
\* item of what it returns, or the sign-in raises.
MainSignin ==
  /\ InMain("start")
  /\ world.command \in HubCommands
  /\ ~cli.is_authenticated
  /\ world.hub_username /\ world.hub_password
  /\ \/ /\ cli' = [cli EXCEPT !.is_authenticated = TRUE, !.user_id = "user:1",
                              !.signed_in = TRUE]
        /\ pc' = "dispatch"
        /\ UNCHANGED error
     \/ Fail("Exception") /\ UNCHANGED cli
  /\ UNCHANGED CliFrame

HubCall(command) == [command |-> command, is_authenticated |-> cli.is_authenticated]

\* Lines 388-508 and 541-546: a command other than run makes its hub call.
MainCommand ==
  /\ InMain("dispatch")
  /\ world.command \in HubCommands \ {"run"}
  /\ cli' = [cli EXCEPT !.called = Append(@, HubCall(world.command))]
  /\ pc' = "done"
  /\ UNCHANGED <<CliFrame, error>>

\* Lines 510-539: the arguments of run are parsed; a key=value parameter
\* without `=` does not unpack (line 517).
MainRunArguments ==
  /\ InMain("dispatch")
  /\ world.command = "run"
  /\ IF world.parameters = "word"
     THEN Fail("ValueError")
     ELSE pc' = "call_run" /\ UNCHANGED error
  /\ UNCHANGED <<CliFrame, cli>>

\* Line 540: run(naptha, args.agent, user_id, ...) is called.
MainCallRun ==
  /\ InMain("call_run")
  /\ cli.user_id # UnboundLocal
  /\ cli' = [cli EXCEPT !.called = Append(@, HubCall("run"))]
  /\ pc' = "done"
  /\ UNCHANGED <<CliFrame, error>>

\* Line 540 reads user_id, which no assignment has bound.
MainCallRunUnbound ==
  /\ InMain("call_run")
  /\ cli.user_id = UnboundLocal
  /\ Fail("UnboundLocalError")
  /\ UNCHANGED <<CliFrame, cli>>

\* Everything but the program, the position and the command line's locals,
\* as the interpreter starts a program that extracts nothing.
ExtractorIdle ==
  /\ loc = Ret(FALSE)
  /\ variables = <<>>
  /\ fn_code = <<>>
  /\ used_variables = <<>>
  /\ stack = <<>>
  /\ processed = {}
  /\ modules = <<>>
  /\ k = 1
  /\ class_info = Unbound
  /\ emitted = <<>>
  /\ result = NoResult
  /\ error = ""
  /\ history = <<>>

InitMain ==
  /\ world \in MainRuns
  /\ pc = "start"
  /\ cli = MainLocals(world)
  /\ ExtractorIdle

NextMain ==
  \/ MainSignup
  \/ MainHelp
  \/ MainAuthenticated
  \/ MainNoCredentials
  \/ MainSignin
  \/ MainCommand
  \/ MainRunArguments
  \/ MainCallRun
  \/ MainCallRunUnbound

SpecMain == InitMain /\ [][NextMain]_vars

\* ------------------------------------- the legacy command line (src/cli.py)

\* What the user may type at the prompt of line 56.
Responses == {"y", "n", " Y ", "N", "yes", ""}

\* Line 56: .strip().lower() of what was typed.
StripLower(response) ==
  CASE response = " Y " -> "y"
    [] response = "N" -> "n"
    [] OTHER -> response

\* A call run(hub, services, module_id, parameters, yaml_file, local) as
\* main makes it (line 188): -f names no file, a YAML file, or a missing one.
LegacyRun(parameters, yaml_file, local) ==
  [call |-> "run", parameters |-> parameters, yaml_file |-> yaml_file,
   local |-> local]

LegacyRuns ==
  {LegacyRun(p, f, l) :
     p \in {"None", "dict"}, f \in {"None", "present", "missing"}, l \in BOOLEAN}

\* The prompts answered in one run.
MaxPrompts == 3

\* The locals of run on entry, with what the run did so far (history): the
\* answers typed, whether services.run_task created a job, the statuses
\* that check_task returned, and the lines printed.
RunLocals ==
  [running |-> "run", module_params |-> UnboundLocal, creds |-> UnboundLocal,
   confirm |-> UnboundLocal, responses |-> <<>>, submitted |-> FALSE,
   statuses |-> <<>>, printed |-> <<>>]

InRun(at) == world.call = "run" /\ pc = at

Printed(line) == [cli EXCEPT !.printed = Append(@, line)]

\* Lines 48-52: the parameters come from the YAML file when one is named.
RunParameters ==
  /\ InRun("start")
  /\ CASE world.yaml_file = "None" ->
            /\ cli' = [cli EXCEPT !.module_params = world.parameters]
            /\ pc' = "parameters"
            /\ UNCHANGED error
       [] world.yaml_file = "present" ->
            /\ cli' = [Printed("Running module") EXCEPT !.module_params = "yaml"]
            /\ pc' = "parameters"
            /\ UNCHANGED error
       [] OTHER -> Fail("FileNotFoundError") /\ UNCHANGED cli
  /\ UNCHANGED CliFrame

\* Lines 64 and 71-72: a local run asks nothing.
RunLocal ==
  /\ InRun("parameters")
  /\ world.local
  /\ cli' = [cli EXCEPT !.confirm = "True"]
  /\ pc' = "confirmed"
  /\ UNCHANGED <<CliFrame, error>>

\* Lines 64-66: the balance is read from the payments service, or that raises.
RunShowCredits ==
  /\ InRun("parameters")
  /\ ~world.local
  /\ \/ cli' = [cli EXCEPT !.creds = "balance"] /\ pc' = "prompt" /\ UNCHANGED error
     \/ Fail("Exception") /\ UNCHANGED cli
  /\ UNCHANGED CliFrame

\* Lines 56-58 and 67: the answer is y, confirm() returns True.
RunAnswerYes ==
  /\ InRun("prompt")
  /\ \E response \in Responses :
       /\ StripLower(response) = "y"
       /\ cli' = [cli EXCEPT !.responses = Append(@, response), !.confirm = "True"]
  /\ pc' = "confirmed"
  /\ UNCHANGED <<CliFrame, error>>

\* Lines 56, 59-60 and 67-70: the answer is n, run prints and returns None.
RunAnswerNo ==
  /\ InRun("prompt")
  /\ \E response \in Responses :
       /\ StripLower(response) = "n"
       /\ cli' = [Printed("Exiting...") EXCEPT !.responses = Append(@, response),
                                               !.confirm = "False"]
  /\ pc' = "done"
  /\ UNCHANGED <<CliFrame, error>>

\* Lines 56 and 61-62: any other answer is refused and the prompt repeats.
RunAnswerInvalid ==
  /\ InRun("prompt")
  /\ Len(cli.responses) < MaxPrompts - 1
  /\ \E response \in Responses :
       /\ StripLower(response) \notin {"y", "n"}
       /\ cli' = [Printed("Invalid input.") EXCEPT !.responses = Append(@, response)]
  /\ UNCHANGED <<CliFrame, pc, error>>

\* The parameters of Services.run_task (services.py line 45), self apart.
run_task_parameters == {"task_input"}

\* The keyword arguments of the call of lines 76-80.
run_task_keywords == {"task_input", "local"}

\* Lines 74-80: "Running..." is printed and services.run_task is called with
\* the keywords task_input and local. Services.run_task takes task_input
\* only, so the call raises TypeError before any request is made; the loop
\* of lines 83-94 and the prints of lines 96-99 are never reached.
RunTaskRaises ==
  /\ InRun("confirmed")
  /\ ~(run_task_keywords \subseteq run_task_parameters)
  /\ cli' = Printed("Running...")
  /\ Fail("TypeError")
  /\ UNCHANGED CliFrame

InitLegacy ==
  /\ world \in LegacyRuns
  /\ pc = "start"
  /\ cli = RunLocals
  /\ ExtractorIdle

NextLegacy ==
  \/ RunParameters
  \/ RunLocal
  \/ RunShowCredits
  \/ RunAnswerYes
  \/ RunAnswerNo
  \/ RunAnswerInvalid
  \/ RunTaskRaises

SpecLegacy == InitLegacy /\ [][NextLegacy]_vars

\* ================================================================ claims

\* The local entries in discovery order: what line 229 is to select.
Discovered == SelectSeq(modules, LAMBDA m : m.is_local)

\* The textual dependency graph of a sequence of entries: entry i depends on
\* entry j when j has another name and that name occurs in the source text
\* of i.
DependsOn(entries, i, j) ==
  /\ entries[i].name # entries[j].name
  /\ entries[i].has_source
  /\ Contains(entries[i].source, entries[j].name)

\* The graph restricted to the entries S has no cycle: entries that depend on
\* none of the others can be removed until none is left.
RECURSIVE AcyclicOn(_, _)
AcyclicOn(entries, S) ==
  IF S = {} THEN TRUE
  ELSE LET free == {i \in S : \A j \in S : ~DependsOn(entries, i, j)}
       IN IF free = {} THEN FALSE ELSE AcyclicOn(entries, S \ free)

Acyclic(entries) == AcyclicOn(entries, 1..Len(entries))

Count(seq, x) == Cardinality({i \in 1..Len(seq) : seq[i] = x})

IsPermutation(a, b) ==
  /\ Len(a) = Len(b)
  /\ \A i \in 1..Len(b) : Count(a, b[i]) = Count(b, b[i])

\* Every entry comes after the entries it depends on.
DependenciesFirst(entries) ==
  \A i, j \in 1..Len(entries) : DependsOn(entries, i, j) => j < i

Returned == pc = "done" /\ world.call = "scrape_func"

\* C1: when the textual dependency graph of the local entries is acyclic, the
\* returned local list is a permutation of them in which every entry comes
\* after every other local entry whose name occurs in its source text.
C1_TopologicalOrder ==
  (Returned /\ Acyclic(Discovered)) =>
     /\ IsPermutation(result.local_modules, Discovered)
     /\ DependenciesFirst(result.local_modules)

\* Two entries each mention the other's name.
MutualPair(entries) ==
  \E i, j \in 1..Len(entries) : DependsOn(entries, i, j) /\ DependsOn(entries, j, i)

\* C2: when two local entries mention each other (a cycle of the dependency
\* graph), the extraction does not return: it ends in the cyclic-dependency
\* error.
C2_CycleReported ==
  (world.call = "scrape_func" /\ pc \in {"done", "raised"} /\ k > Len(used_variables)
     /\ MutualPair(Discovered))
  => (pc = "raised" /\ error = "CyclicDependency")

Position(seq, x) == CHOOSE i \in 1..Len(seq) : seq[i] = x

\* Neither entry depends on the other, not even through other entries.
RECURSIVE ReachableFrom(_, _)
ReachableFrom(entries, S) ==
  LET more == S \cup {j \in 1..Len(entries) : \E i \in S : DependsOn(entries, i, j)}
  IN IF more = S THEN S ELSE ReachableFrom(entries, more)

Unconstrained(entries, i, j) ==
  /\ j \notin ReachableFrom(entries, {i})
  /\ i \notin ReachableFrom(entries, {j})

PlacedBefore(p) == {result.local_modules[r].name : r \in 1..(p - 1)}

Scraping == world.call = "scrape_func"

MissingYaml(v) == v.type = "constant" /\ IsYaml(v) /\ ~YamlExists(v)
PresentYaml(v) == v.type = "constant" /\ IsYaml(v) /\ YamlExists(v)

\* name = "<value>"
LiteralLine(v) == v.target \o <<" = ", "\"">> \o v.value.s \o <<"\"", "\n">>
\* name = <parsed structure>
ParsedLine(v) == v.target \o <<" = ">> \o YamlData(v) \o <<"\n">>

\* C4: a used string constant that names a YAML file that does not exist is
\* still given one variable entry of its own, with the string-literal
\* assignment as source, and the extraction does not fail on it.
C4_MissingYamlInlinedAsLiteral ==
  Scraping =>
    /\ error # "UnboundLocalError"
    /\ \A j \in 1..Len(emitted) :
         MissingYaml(used_variables[j]) =>
           /\ emitted[j].name = used_variables[j].target
           /\ emitted[j].import_type = "variable"
           /\ emitted[j].source = LiteralLine(used_variables[j])

\* C5: a used string constant that names a YAML file that exists is given a
\* variable entry whose source assigns the parsed contents of the file to the
\* name, not the string literal; the entry is returned among the variables.
C5_PresentYamlInlinedParsed ==
  Scraping =>
    \A j \in 1..Len(emitted) :
       PresentYaml(used_variables[j]) =>
         /\ emitted[j].name = used_variables[j].target
         /\ emitted[j].import_type = "variable"
         /\ emitted[j].source = ParsedLine(used_variables[j])
         /\ emitted[j].source # LiteralLine(used_variables[j])
         /\ emitted[j].source # used_variables[j].target \o <<" = ">>
                                   \o Format(used_variables[j].value) \o <<"\n">>
         /\ (pc = "done" /\ emitted[j].name # <<"logger">>)
              => \E r \in 1..Len(result.variable_modules) :
                    result.variable_modules[r] = emitted[j]

\* The extraction returned and a constant naming an existing YAML file was used.
C5_Witness ==
  /\ Returned
  /\ \E j \in 1..Len(emitted) : PresentYaml(used_variables[j])

\* C6: no two entries of one extraction result carry the same name.
C6_NamesUnique ==
  Returned => \A i, j \in 1..Len(modules) : modules[i].name = modules[j].name => i = j

\* The scan of line 164 has returned and the loop of line 168 has not begun.
Scanned == Scraping /\ pc = "inline" /\ k = 1

\* The names of the entry scope that are bound to object o, occur in the
\* scanned body and lack the double-underscore prefix, as positions.
NamesOf(o) ==
  {j \in 1..Len(world.globals.E) :
     /\ world.globals.E[j].obj = o
     /\ Contains(fn_code, world.globals.E[j].name)
     /\ ~StartsWith(world.globals.E[j].name, <<"__">>)}

\* The names under which the scan recorded object o: entries and variables.
RecordedAs(o) ==
  [entries |-> SelectSeq(modules, LAMBDA m : m.obj = o),
   variables |-> SelectSeq(used_variables, LAMBDA v : v.obj = o)]

\* Rule 4 of the classifier passes over an object whose owning module is not
\* loaded or was visited itself.
MayBeSkipped(o) ==
  /\ world.objs[o].kind \notin {"union", "const", "module"}
  /\ world.objs[o].module \notin world.sys_modules \/ world.objs[o].module \in processed

\* C7: an object bound under two names of the scope that both occur in the
\* scanned body gets exactly one entry, and the entry carries the first of
\* those names in the iteration order of the scope.
C7_OneEntryFirstName ==
  Scanned =>
    \A o \in {world.globals.E[j].obj : j \in 1..Len(world.globals.E)} :
       Cardinality(NamesOf(o)) >= 2 =>
         LET rec == RecordedAs(o)
             first == world.globals.E[Min(NamesOf(o))].name
         IN \/ /\ Len(rec.entries) = 1 /\ Len(rec.variables) = 0
               /\ rec.entries[1].name = first
            \/ /\ Len(rec.entries) = 0 /\ Len(rec.variables) = 1
               /\ rec.variables[1].target = first
            \/ /\ Len(rec.entries) = 0 /\ Len(rec.variables) = 0
               /\ MayBeSkipped(o)

\* The top-level assignments of the entry file to the name n, as positions.
TopLevel(n) ==
  {i \in 1..Len(world.file) :
     /\ world.file[i].depth = 1
     /\ \E j \in 1..Len(world.file[i].targets) :
          world.file[i].targets[j].isName /\ world.file[i].targets[j].id = n}

\* The record says what the assignment node binds the name to.
Reflects(record, node) ==
  \/ /\ node.value.node = "Constant"
     /\ record.type = "constant"
     /\ record.value = node.value.value
  \/ /\ node.value.node = "Call"
     /\ node.value.func.node = "Name"
     /\ record.type = "call"
     /\ record.cls_name = node.value.func.id

\* C8: in an entry file of top-level assignments, a name assigned more than
\* once has exactly one variable record, and the record reflects the last
\* assignment to the name, whatever the kinds of the right-hand sides.
C8_LastAssignmentWins ==
  (Scraping /\ pc # "start" /\ \A i \in 1..Len(world.file) : world.file[i].depth = 1) =>
    \A n \in {<<"c">>, <<"d">>} :
       Cardinality(TopLevel(n)) >= 2 =>
         LET records == SelectSeq(variables, LAMBDA v : v.target = n)
         IN /\ Len(records) = 1
            /\ Reflects(records[1], world.file[Max(TopLevel(n))])

\* The scan and the loop of lines 168-226 are over: every entry is in modules.
Inlined == Scraping /\ pc = "inline" /\ k > Len(used_variables)

\* The members of a union that are classes.
ClassMembers(u) == SelectSeq(world.objs[u].args, LAMBDA a : world.objs[a].kind = "class")

\* name = Union[<member names>]
UnionLine(name, u) ==
  name \o <<" = ", "Union[">>
       \o join(<<", ">>, [j \in 1..Len(world.objs[u].args) |->
                            ArgName(world.objs[world.objs[u].args[j]])])
       \o <<"]", "\n">>

\* The union-kind entries under a name, and the entries the union object u
\* produced for its members.
UnionEntries(name) ==
  SelectSeq(modules, LAMBDA m : m.import_type = "union" /\ m.name = name)
MemberEntriesOf(u) ==
  SelectSeq(modules, LAMBDA m : m.import_type = "selective" /\ m.by = u /\ m.obj # u)

\* One selective, non-local entry per class member of u, in member order, and
\* none for the other members.
OnePerClassMember(u) ==
  /\ Len(MemberEntriesOf(u)) = Len(ClassMembers(u))
  /\ \A j \in 1..Len(ClassMembers(u)) :
       /\ MemberEntriesOf(u)[j].obj = ClassMembers(u)[j]
       /\ MemberEntriesOf(u)[j].name = world.objs[ClassMembers(u)[j]].name
       /\ ~MemberEntriesOf(u)[j].is_local

\* The union objects bound in the entry scope.
Unions == {o \in {world.globals.E[j].obj : j \in 1..Len(world.globals.E)} :
             world.objs[o].kind = "union"}

InTree(path, dir) == path = dir \/ StartsWith(path, dir \o <<"/">>)

\* A module is local when it has a file path in the tree of the working
\* directory and outside the tree of its .venv directory.
Local(module) ==
  /\ module.file = "path"
  /\ InTree(AbsPath(module.path), Cwd)
  /\ ~InTree(AbsPath(module.path), Cwd \o <<"/", ".venv">>)

\* C10: is_local_module returns true exactly for a module whose file path lies
\* in the tree of the working directory and outside the tree of its .venv
\* directory; a module without a file path gets false, and no module makes the
\* function fail.
C10_LocalIffInsideTree ==
  (world.call = "is_local_module" /\ pc # "start") =>
     /\ pc = "done"
     /\ loc.exc = "none"
     /\ loc.value = Local(world.module)

\* The call of get_obj_dependencies made at line 164 ended in an exception:
\* its frames were left where the exception was raised.
ScanRaised == Scraping /\ pc = "raised" /\ stack # <<>>

\* C11: classification never raises: get_obj_dependencies returns normally
\* for every scope and body text; an object whose source text cannot be
\* retrieved does not end the scan.
C11_ScanNeverRaises == ~ScanRaised

\* The entry carries a source text, and an empty one only for a TypeVar.
CarriesSource(m) ==
  /\ m.has_source
  /\ m.source = <<>> => world.objs[m.obj].kind = "typevar"

\* C12: every entry with is_local = true carries a non-empty source text,
\* except a TypeVar, which carries the empty string; whole-module entries
\* that the locality rule finds local are included.
C12_LocalEntriesCarrySource ==
  Scraping =>
    /\ \A i \in 1..Len(modules) : modules[i].is_local => CarriesSource(modules[i])
    /\ \A i \in 1..Len(result.local_modules) : CarriesSource(result.local_modules[i])

\* The bindings of the entry scope the scan looks at: the name occurs in the
\* scanned body and lacks the double-underscore prefix. As positions.
Looked == {j \in 1..Len(world.globals.E) :
             /\ Contains(fn_code, world.globals.E[j].name)
             /\ ~StartsWith(world.globals.E[j].name, <<"__">>)}

\* An earlier binding the scan looked at holds the very same object.
SeenBefore(j) == \E i \in Looked : i < j /\ world.globals.E[i].obj = world.globals.E[j].obj

\* C13: the visited set goes by identity: every constant bound in the scope
\* under a name that occurs in the body gets a record of its own under that
\* name, also when an equal constant (1, 1.0, True) was recorded before; only
\* a further name of the very same object is passed over.
C13_VisitedByIdentity ==
  Scanned =>
    \A j \in Looked :
       LET b == world.globals.E[j]
           recorded == \E r \in 1..Len(used_variables) :
                          /\ used_variables[r].target = b.name
                          /\ used_variables[r].obj = b.obj
       IN world.objs[b.obj].kind = "const" => (recorded <=> ~SeenBefore(j))

\* A function or class defined in a module that is_local_module finds local.
LocalDef(o) ==
  /\ world.objs[o].kind \in {"function", "class"}
  /\ world.objs[o].module \in world.sys_modules
  /\ is_local_module(world.objs[world.objs[o].module]) = Ret(TRUE)

\* The local definitions a text refers to by the names of a scope.
Refs(scope, text) ==
  {scope[j].obj : j \in {i \in 1..Len(scope) :
                           /\ Contains(text, scope[i].name)
                           /\ ~StartsWith(scope[i].name, <<"__">>)
                           /\ LocalDef(scope[i].obj)}}

\* The definitions reached from S through the names their sources mention,
\* each name read in the globals of the module that defines the source.
RECURSIVE Closure(_)
Closure(S) ==
  LET next == S \cup UNION {Refs(world.globals[world.objs[o].module], world.objs[o].source) :
                              o \in S}
  IN IF next = S THEN S ELSE Closure(next)

Reachable == Closure(Refs(world.globals.E, fn_code))

\* C14: every local function or class reachable from the body of the entry
\* function through textual name references is among the returned local
\* entries, with its source text.
C14_TransitivelyComplete ==
  Returned =>
    \A o \in Reachable :
       \E i \in 1..Len(result.local_modules) :
          /\ result.local_modules[i].obj = o
          /\ result.local_modules[i].has_source
          /\ result.local_modules[i].source = world.objs[o].source

\* What evaluating the right-hand side of a line gives: the value of a
\* literal, and for any other text the expression it is (a name to look up).
Evaluate(text) ==
  IF Len(text) >= 2 /\ text[1] = "\"" /\ text[Len(text)] = "\""
    THEN PyStr(SubSeq(text, 2, Len(text) - 1))
  ELSE IF text \in {<<"1">>, <<"2">>, <<"-2">>} THEN PyInt(text[1])
  ELSE IF text = <<"1.0">> THEN PyFloat(text[1])
  ELSE IF text \in {<<"True">>, <<"False">>} THEN PyBool(text[1])
  ELSE [t |-> "expression", s |-> text]

\* The right-hand side of the line `name = value\n`.
RightHandSide(name, line) == SubSeq(line, Len(name) + 2, Len(line) - 1)

\* The value the program binds the name of a constant record to.
Original(v) == IF v.obj = "" THEN v.value ELSE world.objs[v.obj].value

\* A used constant that is inlined as it is (not a YAML file name).
PlainConstant(v) == v.type = "constant" /\ ~IsYaml(v)

\* C15: the line inlined for a constant reproduces the binding: it has the
\* form name = value, and evaluating it binds the name to a value equal to
\* the original one; a string is written as a quoted literal.
C15_ConstantLineRoundTrips ==
  Scraping =>
    \A j \in 1..Len(emitted) :
       PlainConstant(used_variables[j]) =>
         LET v == used_variables[j]
             line == emitted[j].source
         IN /\ StartsWith(line, v.target \o <<" = ">>)
            /\ EndsWith(line, <<"\n">>)
            /\ Evaluate(RightHandSide(v.target, line)) = Original(v)

\* The source text of an expression of the entry file.
RECURSIVE Unparse(_)
Unparse(value) ==
  CASE value.node = "Constant" ->
         IF IsStr(value.value) THEN <<"\"">> \o Format(value.value) \o <<"\"">>
         ELSE Format(value.value)
    [] value.node = "Name" -> value.id
    [] value.node = "Attribute" -> Unparse(value.value) \o <<".">> \o value.attr
    [] value.node = "Call" -> Unparse(value.func) \o <<"()">>
    [] OTHER -> value.src

\* kw=<expr>, as the line writes one keyword argument: a string literal
\* between quotes, any other expression as its source text.
Argument(keyword) ==
  IF keyword.value.node = "Constant" /\ IsStr(keyword.value.value)
  THEN keyword.arg \o <<"=\"">> \o Format(keyword.value.value) \o <<"\", ">>
  ELSE keyword.arg \o <<"=">> \o Unparse(keyword.value) \o <<", ">>

RECURSIVE Arguments(_)
Arguments(keywords) ==
  IF keywords = <<>> THEN <<>>
  ELSE Argument(keywords[1]) \o Arguments(Tail(keywords))

\* name = SomeClass(kw1=<expr1>, ...) for an assignment node of the file.
CallLine(node) ==
  node.targets[1].id \o <<" = ">> \o node.value.func.id \o <<"(">>
    \o Arguments(node.value.keywords) \o <<")\n">>

\* The entry file is one assignment of a constructor call to a name.
OneCall ==
  /\ Len(world.file) = 1
  /\ world.file[1].value.node = "Call"
  /\ world.file[1].value.func.node = "Name"
  /\ Len(world.file[1].targets) = 1
  /\ world.file[1].targets[1].isName

\* C16: the line inlined for name = SomeClass(kw1=v1, ...) is
\* name = SomeClass(kw1=<expr1>, ...), each <expr> the source text of the
\* keyword's value expression: a string literal stays quoted; a name, an
\* attribute access, a call or any other expression stays unquoted.
C16_CallLineKeepsExpressions ==
  (Scraping /\ OneCall) =>
    \A j \in 1..Len(emitted) :
       (used_variables[j].type = "call" /\ emitted[j] # Nothing)
         => emitted[j].source = CallLine(world.file[1])

\* The statements of the entry file that are top-level statements.
TopLevelOnly(file) == SelectSeq(file, LAMBDA n : n.depth = 1)

\* C17: scrape_init records the top-level assignments only: its result is
\* what it gives for the file without the assignments nested in function
\* bodies, class bodies and other compound statements, so a nested assignment
\* is neither recorded nor able to replace the record of a top-level one.
C17_TopLevelOnly ==
  (Scraping /\ pc # "start") => variables = scrape_init(TopLevelOnly(world.file))

\* The lines of a definition from its def or class line on: the lines above
\* it are its decorators.
RECURSIVE FromDefinition(_)
FromDefinition(lines) ==
  IF lines = <<>> THEN <<>>
  ELSE IF StartsWith(lstrip(lines[1]), <<"def ">>) \/ StartsWith(lstrip(lines[1]), <<"class ">>)
       THEN lines
       ELSE FromDefinition(Tail(lines))

\* C18: the source text scrape_func returns is the definition without its
\* decorator lines: no line of a decorator remains, continuation lines
\* included, and every other line is kept in order, body lines that start
\* with "@" included.
C18_DecoratorsStripped ==
  (Scraping /\ pc \notin {"start", "scraped"}) =>
     splitlines(fn_code) = FromDefinition(splitlines(world.func_source))

\* A call of scrape_func has just entered get_obj_dependencies (line 164).
Entered == Scraping /\ pc = "scan" /\ stack = <<Frame(world.entry, fn_code)>>

\* A call of scrape_func ended after an earlier one.
EndedAgain == Scraping /\ history # <<>> /\ pc \in {"done", "raised"}

\* C19: no state survives an extraction: every call made without a visited
\* set starts from an empty one, and a second call on the same function with
\* the program unchanged ends as the first did, with the same result.
C19_NoStateSurvives ==
  /\ Entered => processed = {}
  /\ EndedAgain => Outcome = history[Len(history)]

\* A second call returned entries after the first call had visited objects.
C19_Witness ==
  /\ EndedAgain
  /\ pc = "done"
  /\ processed # {}
  /\ Len(modules) >= 2
  /\ history[1].ended = "done"

\* The entries made so far: those of the frames of the recursion, the entry
\* each caller holds back while its object is expanded, and modules.
RECURSIVE FrameEntries(_)
FrameEntries(frames) ==
  IF frames = <<>> THEN <<>>
  ELSE frames[1].modules
         \o (IF frames[1].pending = Unbound THEN <<>> ELSE <<frames[1].pending>>)
         \o FrameEntries(Tail(frames))

\* The expansions of the object o: the entries made for it with its source.
Expansions(o) ==
  SelectSeq(modules \o FrameEntries(stack),
            LAMBDA m : m.obj = o /\ m.import_type = "selective" /\ m.is_local
                       /\ m.source # <<>>)

\* The objects under expansion are in the visited set, and each frame above
\* the first scans the source of the object its caller holds back.
AddedBeforeExpanded ==
  \A i \in 1..(Len(stack) - 1) :
     /\ stack[i].pending # Unbound
     /\ stack[i].pending.obj \in processed
     /\ stack[i + 1].code = world.objs[stack[i].pending.obj].source

ExpandedOnce == \A o \in DOMAIN world.objs : Len(Expansions(o)) <= 1

\* C20: the recursive expansion terminates, also when local objects mention
\* each other or themselves: an object is in the visited set before its
\* source is expanded, the visited set only grows, no object is expanded
\* more than once in an extraction, and every scan comes to an end.
C20_ExpansionTerminates ==
  /\ [](Scraping => (AddedBeforeExpanded /\ ExpandedOnce))
  /\ [][processed \subseteq processed']_vars
  /\ (pc = "scan") ~> (pc # "scan")

\* The scan of an object's source meets the name of an object that is under
\* expansion further down the recursion: two local objects mention each other.
C20_Witness ==
  /\ InLoop
  /\ Len(stack) >= 3
  /\ Contains(Top.code, Cur.name)
  /\ \E i \in 1..(Len(stack) - 2) :
        stack[i].pending # Unbound /\ stack[i].pending.obj = Cur.obj

\* A scan returned after the same scan, under another iteration order of a
\* scope, had returned.
ReturnedAgain ==
  /\ ScanEnded
  /\ pc = "scan"
  /\ history # <<>>
  /\ history[1].ended = "returned"

\* C21: the entries and the variables that get_obj_dependencies produces do
\* not depend on the order in which the bindings of the scope are iterated:
\* two scans of the same bindings and body text that both return give the
\* same set of (name, module, import kind, locality) entries and the same
\* set of variables.
C21_OrderIndependent == ReturnedAgain => ScanOutcome = history[1]

\* The five lists of line 237, in the order they are returned.
Lists ==
  <<result.local_modules, result.selective_import_modules,
    result.standard_import_modules, result.variable_modules, result.union_modules>>

\* How many times the entry m is returned, over the five lists.
TimesReturned(m) ==
  Count(Lists[1], m) + Count(Lists[2], m) + Count(Lists[3], m)
    + Count(Lists[4], m) + Count(Lists[5], m)

InList(m, i) == Count(Lists[i], m) > 0

\* C22: the five lists that scrape_func returns are pairwise disjoint and
\* together hold every discovered entry not named logger exactly once: no
\* entry is returned in two lists, and none is left out.
C22_ListsPartitionEntries ==
  (Scraping /\ pc = "done") =>
     /\ \A j \in 1..Len(modules) :
           TimesReturned(modules[j]) = Count(modules, modules[j])
     /\ \A a, b \in 1..5 :
           a # b => ~\E j \in 1..Len(modules) :
                       InList(modules[j], a) /\ InList(modules[j], b)

\* C23: in main of the SDK command line every hub-facing command runs only
\* after authentication, and whenever the run command reaches the call of
\* run(...) a user id has been bound, both when the session is authenticated
\* on entry and when a sign-in is made first.
C23_AuthenticatedAndUserBound ==
  world.call = "main" =>
     /\ \A j \in 1..Len(cli.called) : cli.called[j].is_authenticated
     /\ pc = "call_run" => cli.user_id # UnboundLocal

\* The statuses that end the polling.
Terminal == {"completed", "error"}

\* The run went past the confirmation and has ended.
EndedConfirmed ==
  world.call = "run" /\ cli.confirm = "True" /\ pc \in {"done", "raised"}

LastStatus == cli.statuses[Len(cli.statuses)]

\* C24: in run of the legacy command line, once the run is confirmed a job
\* is submitted and its status polled until the first response that is
\* completed or error: no check_task call follows a terminal status, the
\* loop is not left on a status that is not terminal, the reply is printed
\* exactly when the last status is completed (the error message otherwise),
\* and after the answer n no task is submitted.
C24_PollsUntilTerminal ==
  world.call = "run" =>
     /\ \A j \in 1..(Len(cli.statuses) - 1) : cli.statuses[j] \notin Terminal
     /\ EndedConfirmed =>
          /\ cli.submitted
          /\ cli.statuses # <<>>
          /\ LastStatus \in Terminal
          /\ cli.printed[Len(cli.printed)] =
               (IF LastStatus = "completed" THEN "reply" ELSE "error_message")
     /\ cli.confirm = "False" => (~cli.submitted /\ cli.statuses = <<>>)

====
